---- MODULE Spec2Model ----
(***************************************************************************)
(* The k6 working-memory extension (memory/memory.go): one process-wide    *)
(* Cache whose four methods Init, Set, Get and Flush run under c.mutex and *)
(* delegate to a github.com/patrickmn/go-cache store.  The store is the    *)
(* library's: a map of items guarded by its own lock mu, a default         *)
(* expiration, and (for a cleanup interval > 0) a janitor goroutine that   *)
(* calls DeleteExpired on every tick of its ticker.                        *)
(*                                                                         *)
(* Time is counted in whole seconds, the unit of every duration the        *)
(* methods accept, so time.Duration(n) * time.Second is n clock units.     *)
(* The durations of the model stay far below the 2^63 ns at which that     *)
(* product overflows.                                                      *)
(***************************************************************************)
EXTENDS Integers, Sequences, FiniteSets

\* ------------------------------------------------------------------ bounds
MaxTime == 2
MaxTTL == 1
MaxInterval == 1
\* The janitors of replaced stores that run at the same time.
MaxStale == 1
\* The calls of New.
MaxNew == 2

Threads == {"t1", "t2"}
Keys == {"k1", "k2"}
\* The values stored: the empty string is a value like any other.
Values == {"", "v"}

\* Seconds a caller passes: negative, zero and positive.
Durations == -1 .. MaxTTL
Intervals == -1 .. MaxInterval
\* The variadic expiration ...int of Set: omitted, or one number of seconds.
Expirations == {<<>>} \cup {<<n>> : n \in Durations}

\* -------------------------------------------------------------- constants
Nil == "nil"
NoThread == "none"
Janitor == "janitor"
NoError == ""
ErrNotInitialized == "cache not initialized: please call init() first"
\* go-cache: cache.DefaultExpiration and cache.NoExpiration
DefaultExpiration == 0
NoExpiration == -1

VARIABLES
    now,               \* the wall clock, in seconds
    cache,             \* c.cache: 0 is nil, 1 a store
    mutex,             \* c.mutex: the thread that holds it, or NoThread
    items,             \* the map of the store c.cache refers to
    defaultExpiration, \* the default expiration of that store
    mu,                \* who holds that store's own lock
    janitor,           \* the janitor goroutine of that store
    stale,             \* the janitors of the stores replaced, by state
    pc,                \* pc[t]: where thread t is in its call
    frame,             \* frame[t]: the arguments, locals and results of t's call
    hist,              \* hist[k]: the last Set, Flush or Init that concerned key k
    once,              \* whether once.Do has run its function
    globalCacheInstance, \* 0 is nil; n is the n-th Cache allocated
    roots,             \* the rootModules that New has returned
    exports            \* exports[t]: the Cache that the functions exported to
                       \* VU t are bound to, 0 before t has a module instance

\* The package level and the module instances.  cache, mutex and the store are
\* the fields of the Cache that once.Do allocates, the only one there is.
modvars == <<once, globalCacheInstance, roots, exports>>

vars == <<now, cache, mutex, items, defaultExpiration, mu, janitor, stale, pc, frame,
          hist, modvars>>

\* ------------------------------------------------------------ the store
NoItem == [present |-> FALSE, Object |-> Nil, Expiration |-> 0]
Item(x, e) == [present |-> TRUE, Object |-> x, Expiration |-> e]
EmptyItems == [k \in Keys |-> NoItem]

\* newCache: a default expiration of 0 becomes NoExpiration.
NewDefault(de) == IF de = 0 THEN NoExpiration ELSE de

\* Mutant: a duration that is not positive gives a deadline of now.
DeadlineImmediate(d, de, t) ==
    LET dd == IF d = DefaultExpiration THEN de ELSE d
    IN IF dd > 0 THEN t + dd ELSE t

\* cache.Set's deadline: DefaultExpiration selects the store's default; only a
\* positive duration gives a deadline, 0 meaning the item never expires.
Deadline(d, de, t) ==
    LET dd == IF d = DefaultExpiration THEN de ELSE d
    IN IF dd > 0 THEN t + dd ELSE 0

\* The expiry test inlined in cache.Get and cache.DeleteExpired.
Expired(it, t) == it.Expiration > 0 /\ t > it.Expiration

\* Mutant: a lookup that leaves expiry to the janitor.
LookupUnchecked(m, k, t) ==
    IF ~m[k].present THEN [val |-> Nil, found |-> FALSE]
    ELSE [val |-> m[k].Object, found |-> TRUE]

\* cache.Get: the value and whether it was found.
Lookup(m, k, t) ==
    IF ~m[k].present THEN [val |-> Nil, found |-> FALSE]
    ELSE IF Expired(m[k], t) THEN [val |-> Nil, found |-> FALSE]
    ELSE [val |-> m[k].Object, found |-> TRUE]

\* Mutant: a lookup that deletes the entry it finds expired.
LazilyRemoved(m, k, t) ==
    IF m[k].present /\ Expired(m[k], t) THEN [m EXCEPT ![k] = NoItem] ELSE m

\* cache.Get reads under the read lock: the map after it is the map before.
AfterGet(m, k, t) == m

\* Mutant: cache.Add instead of cache.Set, which keeps an entry that exists.
StoreIfAbsent(m, k, x, e) == IF m[k].present THEN m ELSE [m EXCEPT ![k] = Item(x, e)]

\* Mutant: a store that does not tell the keys apart.
StoreAnyKey(m, k, x, e) == [j \in Keys |-> Item(x, e)]

\* cache.Set's map write.
Store(m, k, x, e) == [m EXCEPT ![k] = Item(x, e)]

\* Mutant: a flush that stops after the first key.
FlushedOne(m) == [m EXCEPT !["k1"] = NoItem]

\* cache.Flush: the map is replaced by an empty one.
Flushed(m) == EmptyItems

\* Mutant: an Init that keeps the map of the store it replaces.
KeptItems(m) == m

\* cache.New: the new store's map is empty, whatever the old one held.
NewItems(m) == EmptyItems

\* Mutant: a sweep that deletes every entry that has a deadline.
DeleteExpiring(m, t) ==
    [k \in Keys |-> IF m[k].present /\ m[k].Expiration > 0 THEN NoItem ELSE m[k]]

\* Mutant: a sweep that empties the store.
SweepAll(m, t) == EmptyItems

\* cache.DeleteExpired's loop, with the time it read.
DeleteExpired(m, t) ==
    [k \in Keys |-> IF m[k].present /\ Expired(m[k], t) THEN NoItem ELSE m[k]]

\* newCacheWithJanitor: a janitor runs only for a cleanup interval > 0.  The
\* period of its ticker is not kept: nothing bounds the delay between a tick
\* and the sweep it starts, so a running janitor may start a sweep at any time.
NoJanitor == [state |-> "none", now |-> 0]
\* The janitors of replaced stores: how many wait for a tick, how many sweep.
NoStale == [wait |-> 0, sweep |-> 0]
Retired(st, j) ==
    CASE j.state = "wait" -> [st EXCEPT !.wait = @ + 1]
      [] j.state = "sweep" -> [st EXCEPT !.sweep = @ + 1]
      [] OTHER -> st
\* Mutant: a cleanup interval of 0 starts a janitor too.
NewJanitorFromZero(ci) ==
    IF ci >= 0 THEN [state |-> "wait", now |-> 0] ELSE NoJanitor

NewJanitor(ci) ==
    IF ci > 0 THEN [state |-> "wait", now |-> 0] ELSE NoJanitor

\* ------------------------------------------------------------ the threads
\* A call's frame: its method, its id, and what it returns (val of Get, ok of
\* Set, err).  at is the time of Get's lookup; replaced and omitted record
\* about a Set whether it found an entry with another value and deadline, and
\* whether it was called without an expiration, or with an expiration of 0.
Idle == [op |-> "idle", id |-> Nil, val |-> Nil, ok |-> FALSE, err |-> NoError,
         at |-> 0, replaced |-> FALSE, omitted |-> FALSE, zero |-> FALSE]

\* What last happened to a key: the Set that wrote it (its value, its deadline
\* and its caller), or the Flush or Init that discarded it (with the value
\* discarded, if any).
NoHist == [kind |-> "none", value |-> Nil, e |-> 0, by |-> NoThread]
Cleared(kind, m) ==
    [k \in Keys |-> [NoHist EXCEPT !.kind = kind, !.value = m[k].Object]]

\* Mutant: an expiration of 0 taken to mean 'no expiration'.
ExpZeroNever(expiration) ==
    IF Len(expiration) > 0
    THEN (IF expiration[1] = 0 THEN NoExpiration ELSE expiration[1])
    ELSE DefaultExpiration

\* Mutant: a Set that passes NoExpiration when no expiration is given.
ExpNever(expiration) ==
    IF Len(expiration) > 0 THEN expiration[1] ELSE NoExpiration

\* Cache.Set's choice of the duration it passes to c.cache.Set.
Exp(expiration) ==
    IF Len(expiration) > 0 THEN expiration[1] ELSE DefaultExpiration

\* Mutant: the test of found inverted.
GetResultInverted(l) == IF l.found THEN Nil ELSE l.val

\* Cache.Get's result: the value if found, nil otherwise.
GetResult(l) == IF l.found THEN l.val ELSE Nil

\* Mutant: a method that does not take the mutex.
CanLockAlways(t) == TRUE

\* c.mutex.Lock() returns only when nobody holds the mutex.
CanLock(t) == mutex = NoThread

\* Mutant: store accesses that do not take the store's lock.
CanLockStoreAlways == TRUE

\* c.mu.Lock() and c.mu.RLock() of the store return only once its lock is free.
CanLockStore == mu = NoThread

\* Mutant: the nil check returns without an error.
NotInitializedSilent(op) == [Idle EXCEPT !.op = op]

\* The error every method returns when c.cache == nil.
NotInitialized(op) == [Idle EXCEPT !.op = op, !.err = ErrNotInitialized]

\* The state once register.go's init() has called New and every VU has its
\* module instance: no Init of the cache yet.
Init ==
    /\ now = 0
    /\ cache = 0
    /\ mutex = NoThread
    /\ items = EmptyItems
    /\ defaultExpiration = 0
    /\ mu = NoThread
    /\ janitor = NoJanitor
    /\ stale = NoStale
    /\ pc = [t \in Threads |-> "idle"]
    /\ frame = [t \in Threads |-> Idle]
    /\ hist = [k \in Keys |-> NoHist]
    /\ once = TRUE
    /\ globalCacheInstance = 1
    /\ roots = 1
    /\ exports = [t \in Threads |-> 1]

\* Cache.Init: under the mutex, c.cache = cache.New(expiration, cleanup).  The
\* store replaced, if any, is garbage from here on: only its janitor reaches
\* its map and its lock, which are not kept.
CacheInit(t, d, ci) ==
    /\ pc[t] = "idle"
    /\ exports[t] # 0
    /\ CanLock(t)
    /\ Retired(stale, janitor).wait + Retired(stale, janitor).sweep <= MaxStale
    /\ mutex' = t
    /\ cache' = 1
    /\ items' = NewItems(items)
    /\ defaultExpiration' = NewDefault(d)
    /\ mu' = NoThread
    /\ janitor' = NewJanitor(ci)
    /\ stale' = Retired(stale, janitor)
    /\ pc' = [pc EXCEPT ![t] = "unlock"]
    /\ frame' = [frame EXCEPT ![t] = [Idle EXCEPT !.op = "init"]]
    /\ hist' = Cleared("init", items)
    /\ UNCHANGED <<modvars, now>>

\* Cache.Set up to and including c.cache.Set(id, value, exp), which reads the
\* clock and writes the item under the store's lock.  Between c.mutex.Lock()
\* and a method's first access to the store only the clock and the janitors
\* can act, and they act the same before the lock is taken: the two are one
\* step here.
CacheSet(t, id, value, expiration) ==
    /\ pc[t] = "idle"
    /\ exports[t] # 0
    /\ CanLock(t)
    /\ mutex' = t
    /\ IF cache = 0
       THEN /\ frame' = [frame EXCEPT ![t] = NotInitialized("set")]
            /\ pc' = [pc EXCEPT ![t] = "unlock"]
            /\ UNCHANGED <<items, hist>>
       ELSE LET e == Deadline(Exp(expiration), defaultExpiration, now)
            IN /\ CanLockStore
               /\ items' = Store(items, id, value, e)
               /\ hist' = [hist EXCEPT ![id] =
                             [kind |-> "set", value |-> value, e |-> e, by |-> t]]
               /\ frame' = [frame EXCEPT ![t] =
                              [Idle EXCEPT !.op = "set", !.id = id,
                                  !.omitted = (expiration = <<>>),
                                  !.zero = (expiration = <<0>>),
                                  !.replaced = /\ items[id].present
                                               /\ items[id].Object # value
                                               /\ items[id].Expiration # e]]
               /\ pc' = [pc EXCEPT ![t] = "set_read"]
    /\ UNCHANGED <<modvars, now, cache, defaultExpiration, mu, janitor, stale>>

\* _, found := c.cache.Get(id); return found, nil
SetRead(t) ==
    /\ pc[t] = "set_read"
    /\ CanLockStore
    /\ frame' = [frame EXCEPT ![t] =
                   [Idle EXCEPT !.op = "set", !.id = frame[t].id,
                                !.ok = Lookup(items, frame[t].id, now).found]]
    /\ pc' = [pc EXCEPT ![t] = "unlock"]
    /\ UNCHANGED <<modvars, now, cache, mutex, items, defaultExpiration, mu, janitor, stale, hist>>

\* Cache.Get: value, found := c.cache.Get(id); the value if found, else nil.
CacheGet(t, id) ==
    /\ pc[t] = "idle"
    /\ exports[t] # 0
    /\ CanLock(t)
    /\ mutex' = t
    /\ IF cache = 0
       THEN frame' = [frame EXCEPT ![t] = NotInitialized("get")]
       ELSE /\ CanLockStore
            /\ frame' = [frame EXCEPT ![t] =
                           [Idle EXCEPT !.op = "get", !.id = id, !.at = now,
                                        !.val = GetResult(Lookup(items, id, now))]]
    /\ items' = IF cache = 0 THEN items ELSE AfterGet(items, id, now)
    /\ pc' = [pc EXCEPT ![t] = "unlock"]
    /\ UNCHANGED <<modvars, now, cache, defaultExpiration, mu, janitor, stale, hist>>

\* Cache.Flush: c.cache.Flush() replaces the map under the store's lock.
CacheFlush(t) ==
    /\ pc[t] = "idle"
    /\ exports[t] # 0
    /\ CanLock(t)
    /\ mutex' = t
    /\ IF cache = 0
       THEN /\ frame' = [frame EXCEPT ![t] = NotInitialized("flush")]
            /\ UNCHANGED <<items, hist>>
       ELSE /\ CanLockStore
            /\ items' = Flushed(items)
            /\ hist' = Cleared("flush", items)
            /\ frame' = [frame EXCEPT ![t] = [Idle EXCEPT !.op = "flush"]]
    /\ pc' = [pc EXCEPT ![t] = "unlock"]
    /\ UNCHANGED <<modvars, now, cache, defaultExpiration, mu, janitor, stale>>

\* Mutant: the 'not initialized' return leaves without unlocking.
UnlockUnlessError(t) ==
    /\ pc[t] = "unlock"
    /\ mutex' = IF frame[t].err = NoError THEN NoThread ELSE mutex
    /\ pc' = [pc EXCEPT ![t] = "idle"]
    /\ frame' = [frame EXCEPT ![t] = Idle]
    /\ UNCHANGED <<modvars, now, cache, items, defaultExpiration, mu, janitor, stale, hist>>

\* defer c.mutex.Unlock(), and the return to the caller.
Unlock(t) ==
    /\ pc[t] = "unlock"
    /\ mutex' = NoThread
    /\ pc' = [pc EXCEPT ![t] = "idle"]
    /\ frame' = [frame EXCEPT ![t] = Idle]
    /\ UNCHANGED <<modvars, now, cache, items, defaultExpiration, mu, janitor, stale, hist>>

\* ------------------------------------------------------------ the janitor
\* janitor.Run receives a tick; DeleteExpired reads the clock and takes the
\* store's lock.
JanitorLock ==
    /\ janitor.state = "wait"
    /\ CanLockStore
    /\ mu' = Janitor
    /\ janitor' = [state |-> "sweep", now |-> now]
    /\ UNCHANGED <<modvars, now, cache, mutex, items, defaultExpiration, stale, pc, frame,
                   hist>>

\* DeleteExpired: the loop over the items, and c.mu.Unlock().
JanitorSweep ==
    /\ janitor.state = "sweep"
    /\ items' = DeleteExpired(items, janitor.now)
    /\ mu' = NoThread
    /\ janitor' = [state |-> "wait", now |-> 0]
    /\ UNCHANGED <<modvars, now, cache, mutex, defaultExpiration, stale, pc, frame, hist>>

\* The janitor of a replaced store goes on: it starts a sweep of that store,
StaleLock ==
    /\ stale.wait > 0
    /\ stale' = [wait |-> stale.wait - 1, sweep |-> stale.sweep + 1]
    /\ UNCHANGED <<modvars, now, cache, mutex, items, defaultExpiration, mu, janitor, pc,
                   frame, hist>>

\* and ends it, which changes nothing that c.cache refers to.
StaleSweep ==
    /\ stale.sweep > 0
    /\ stale' = [wait |-> stale.wait + 1, sweep |-> stale.sweep - 1]
    /\ UNCHANGED <<modvars, now, cache, mutex, items, defaultExpiration, mu, janitor, pc,
                   frame, hist>>

\* stopJanitor, the finalizer of a store nothing refers to any more: it may
\* run at any time after c.cache was replaced, or never, and the janitor
\* takes the stop between two sweeps.
StopJanitor ==
    /\ stale.wait > 0
    /\ stale' = [stale EXCEPT !.wait = @ - 1]
    /\ UNCHANGED <<modvars, now, cache, mutex, items, defaultExpiration, mu, janitor, pc,
                   frame, hist>>

\* The clock advances by a second.
Tick ==
    /\ now < MaxTime
    /\ now' = now + 1
    /\ UNCHANGED <<modvars, cache, mutex, items, defaultExpiration, mu, janitor, stale, pc, frame,
                   hist>>

Next ==
    \/ \E t \in Threads, d \in Durations, ci \in Intervals : CacheInit(t, d, ci)
    \/ \E t \in Threads, id \in Keys, value \in Values, x \in Expirations :
          CacheSet(t, id, value, x)
    \/ \E t \in Threads, id \in Keys : CacheGet(t, id)
    \/ \E t \in Threads : CacheFlush(t)
    \/ \E t \in Threads : SetRead(t)
    \/ \E t \in Threads : Unlock(t)
    \/ JanitorLock
    \/ JanitorSweep
    \/ StaleLock
    \/ StaleSweep
    \/ StopJanitor
    \/ Tick

Spec == Init /\ [][Next]_vars

\* ----------------------------------------------------- fair scheduling
\* The Go scheduler runs every runnable goroutine: a call that can return
\* does (its deferred Unlock included), and a sweep that holds the store's
\* lock ends.  Set's read-back takes the read lock of the store's RWMutex,
\* which the janitor may hold again and again; sync.RWMutex admits the readers
\* that wait when a writer unlocks, so the read-back is not passed over for
\* ever.
Fairness ==
    /\ \A t \in Threads : WF_vars(Unlock(t)) /\ SF_vars(SetRead(t))
    /\ WF_vars(JanitorSweep)

\* The calls of the fair specification use one key and one value: what a call
\* waits for does not depend on either.
NextFair ==
    \/ \E t \in Threads, d \in Durations, ci \in Intervals : CacheInit(t, d, ci)
    \/ \E t \in Threads, x \in Expirations : CacheSet(t, "k1", "v", x)
    \/ \E t \in Threads : CacheGet(t, "k1")
    \/ \E t \in Threads : CacheFlush(t)
    \/ \E t \in Threads : SetRead(t)
    \/ \E t \in Threads : Unlock(t)
    \/ JanitorLock
    \/ JanitorSweep
    \/ StaleLock
    \/ StaleSweep
    \/ StopJanitor
    \/ Tick

SpecFair == Init /\ [][NextFair]_vars /\ Fairness

\* ------------------------------------------------- the module instances
\* Mutant: New without the sync.Once.
DoAlways(done) == TRUE

\* once.Do(f) runs f only if no call of once.Do has run it.
Do(done) == ~done

\* New: once.Do(func() { globalCacheInstance = &Cache{} }), and a new
\* rootModule.  once.Do lets no second caller in before f has returned.
New ==
    /\ roots < MaxNew
    /\ roots' = roots + 1
    /\ IF Do(once)
       THEN globalCacheInstance' = globalCacheInstance + 1
       ELSE UNCHANGED globalCacheInstance
    /\ once' = TRUE
    /\ UNCHANGED <<now, cache, mutex, items, defaultExpiration, mu, janitor, stale, pc,
                   frame, hist, exports>>

\* rootModule.NewModuleInstance: the exports of the VU's module instance are
\* method values of the Cache that globalCacheInstance refers to now.  A
\* rootModule comes from New alone.
NewModuleInstance(t) ==
    /\ pc[t] = "idle"
    /\ roots > 0
    /\ exports' = [exports EXCEPT ![t] = globalCacheInstance]
    /\ UNCHANGED <<now, cache, mutex, items, defaultExpiration, mu, janitor, stale, pc,
                   frame, hist, once, globalCacheInstance, roots>>

\* The process before register.go's init() has run.
InitModule ==
    /\ now = 0
    /\ cache = 0
    /\ mutex = NoThread
    /\ items = EmptyItems
    /\ defaultExpiration = 0
    /\ mu = NoThread
    /\ janitor = NoJanitor
    /\ stale = NoStale
    /\ pc = [t \in Threads |-> "idle"]
    /\ frame = [t \in Threads |-> Idle]
    /\ hist = [k \in Keys |-> NoHist]
    /\ once = FALSE
    /\ globalCacheInstance = 0
    /\ roots = 0
    /\ exports = [t \in Threads |-> 0]

\* The calls use one key and one value, and no janitor runs.
NextModule ==
    \/ New
    \/ \E t \in Threads : NewModuleInstance(t)
    \/ \E t \in Threads, d \in Durations : CacheInit(t, d, 0)
    \/ \E t \in Threads, x \in Expirations : CacheSet(t, "k1", "v", x)
    \/ \E t \in Threads : CacheGet(t, "k1")
    \/ \E t \in Threads : CacheFlush(t)
    \/ \E t \in Threads : SetRead(t)
    \/ \E t \in Threads : Unlock(t)
    \/ Tick

SpecModule == InitModule /\ [][NextModule]_vars

\* ------------------------------------------- threads on keys of their own
\* Each thread sets and gets one key, which no other thread uses, and stores
\* values no other thread stores; the store was initialized before.
Own(t) == IF t = "t1" THEN "k1" ELSE "k2"
OwnValues(t) == IF t = "t1" THEN {"a1", "a2"} ELSE {"b1", "b2"}

InitDistinct ==
    /\ now = 0
    /\ cache = 1
    /\ mutex = NoThread
    /\ items = EmptyItems
    /\ \E d \in Durations : defaultExpiration = NewDefault(d)
    /\ mu = NoThread
    /\ \E ci \in Intervals : janitor = NewJanitor(ci)
    /\ stale = NoStale
    /\ pc = [t \in Threads |-> "idle"]
    /\ frame = [t \in Threads |-> Idle]
    /\ hist = Cleared("init", EmptyItems)
    /\ once = TRUE
    /\ globalCacheInstance = 1
    /\ roots = 1
    /\ exports = [t \in Threads |-> 1]

NextDistinct ==
    \/ \E t \in Threads : \E value \in OwnValues(t), x \in Expirations :
          CacheSet(t, Own(t), value, x)
    \/ \E t \in Threads : CacheGet(t, Own(t))
    \/ \E t \in Threads : SetRead(t)
    \/ \E t \in Threads : Unlock(t)
    \/ JanitorLock
    \/ JanitorSweep
    \/ Tick

SpecDistinct == InitDistinct /\ [][NextDistinct]_vars

\* ================================================================ claims
\* Thread t holds the result of a call of op that found the store initialized.
Returned(t, op) ==
    pc[t] = "unlock" /\ frame[t].op = op /\ frame[t].err = NoError

\* What last happened to the key of t's call.
Hist(t) == hist[frame[t].id]

\* C1: a Get never returns an entry whose deadline is earlier than the time of
\* the lookup.  A Set with an expiration of n > 0 seconds at time t gives the
\* entry the deadline t + n; a Get of the key at a later time than that returns
\* nil and no error until the key is set again, whether or not a sweep has
\* removed the entry.
C1_Get ==
    \A t \in Threads :
        pc[t] = "unlock" /\ frame[t].op = "get" /\ cache # 0 =>
            /\ frame[t].err = NoError
            /\ Hist(t).kind = "set" /\ Hist(t).e > 0 /\ frame[t].at > Hist(t).e
                  => frame[t].val = Nil
            /\ frame[t].val # Nil
                  => /\ Hist(t).kind = "set"
                     /\ Hist(t).e = 0 \/ Hist(t).e >= frame[t].at

C1_Set ==
    \A t \in Threads :
        pc[t] = "idle" /\ pc'[t] = "set_read" =>
            \A id \in {frame'[t].id}, value \in Values, n \in 1 .. MaxTTL :
                CacheSet(t, id, value, <<n>>) =>
                    /\ items'[id].Expiration = now + n
                    /\ hist'[id].e = now + n

C1_NoExpiredValue == [](C1_Get) /\ [][C1_Set]_vars

\* C1 witness: a Get returned nil for an entry past its deadline that is still
\* in the map.
C1_Witness ==
    \E t \in Threads :
        /\ Returned(t, "get") /\ frame[t].val = Nil
        /\ Hist(t).kind = "set" /\ Hist(t).e > 0 /\ frame[t].at > Hist(t).e
        /\ items[frame[t].id].present

\* C2: while no Init has completed, every Set, Get and Flush returns the
\* 'not initialized' error and no value, none of them goes on to the store,
\* and the cache stays uninitialized and empty.
C2_Uninitialized ==
    cache = 0 =>
        /\ \A t \in Threads :
              /\ pc[t] \in {"idle", "unlock"}
              /\ pc[t] = "unlock" =>
                    /\ frame[t].op \in {"set", "get", "flush"}
                    /\ frame[t].err = ErrNotInitialized
                    /\ frame[t].val = Nil
                    /\ frame[t].ok = FALSE
        /\ items = EmptyItems
        /\ janitor = NoJanitor
        /\ \A k \in Keys : hist[k] = NoHist

\* C2 witness: a Set on the uninitialized cache has returned.
C2_Witness ==
    \E t \in Threads : cache = 0 /\ pc[t] = "unlock" /\ frame[t].op = "set"

\* C3: a Get of a key whose last mutation is a Set of value v, before that
\* entry's deadline, returns exactly v and no error.
C3_RoundTrip ==
    \A t \in Threads :
        /\ pc[t] = "unlock" /\ frame[t].op = "get" /\ cache # 0
        /\ Hist(t).kind = "set"
        /\ Hist(t).e = 0 \/ frame[t].at < Hist(t).e
        => frame[t].val = Hist(t).value /\ frame[t].err = NoError

\* C3 witness: a Get returned the empty string that the last Set stored.
C3_Witness ==
    \E t \in Threads :
        /\ Returned(t, "get") /\ Hist(t).kind = "set"
        /\ Hist(t).value = "" /\ frame[t].val = ""

\* C4: a Set of value v2 with an expiration of n > 0 seconds at time t leaves
\* the key with the one entry (v2, t + n) whatever entry it held, and leaves
\* the other keys alone; a later Get returns v2 or nil, never the value
\* overwritten.
C4_Get ==
    \A t \in Threads :
        Returned(t, "get") /\ Hist(t).kind = "set" =>
            /\ frame[t].val \in {Hist(t).value, Nil}
            /\ Hist(t).e = 0 \/ frame[t].at <= Hist(t).e
                  => frame[t].val = Hist(t).value

C4_Set ==
    \A t \in Threads :
        pc[t] = "idle" /\ pc'[t] = "set_read" =>
            \A id \in {frame'[t].id}, value \in Values, n \in 1 .. MaxTTL :
                CacheSet(t, id, value, <<n>>) =>
                    /\ items'[id] = Item(value, now + n)
                    /\ \A k \in Keys \ {id} : items'[k] = items[k]

C4_Overwrite == [](C4_Get) /\ [][C4_Set]_vars

\* C4 witness: a Set has replaced an entry of another value and deadline.
C4_Witness ==
    \E t \in Threads :
        /\ pc[t] = "set_read" /\ frame[t].replaced
        /\ items[frame[t].id].Object = Hist(t).value
        /\ items[frame[t].id].Expiration > 0

\* C5: once an Init has completed the map is empty, and a Get of a key not set
\* since returns nil, also when the store replaced held an entry for it.
C5_InitEmpty ==
    \A t \in Threads :
        /\ Returned(t, "init") => items = EmptyItems
        /\ Returned(t, "get") /\ Hist(t).kind = "init" => frame[t].val = Nil

\* C5 witness: a Get returned nil for a key that the store replaced held.
C5_Witness ==
    \E t \in Threads :
        /\ Returned(t, "get") /\ frame[t].val = Nil
        /\ Hist(t).kind = "init" /\ Hist(t).value # Nil

\* C6: when Flush returns the map is empty and no other call is inside its
\* critical section, and a Get of a key not set since returns nil, no error.
C6_Flush ==
    \A t \in Threads :
        /\ Returned(t, "flush") =>
              /\ items = EmptyItems
              /\ \A u \in Threads \ {t} : pc[u] = "idle"
        /\ pc[t] = "unlock" /\ frame[t].op = "get" /\ cache # 0
              => /\ frame[t].err = NoError
                 /\ Hist(t).kind = "flush" => frame[t].val = Nil

\* C6 witness: a Get returned nil for a key that held an entry when flushed.
C6_Witness ==
    \E t \in Threads :
        /\ Returned(t, "get") /\ frame[t].val = Nil
        /\ Hist(t).kind = "flush" /\ Hist(t).value # Nil

\* C7: an Init with a default expiration of d > 0 seconds makes d the store's
\* default until the next Init; a Set without an expiration at time t then
\* creates the entry with the deadline t + d, and a Get of an entry with a
\* deadline returns its value before the deadline and nil after it.
C7_Get ==
    \A t \in Threads :
        Returned(t, "get") /\ Hist(t).kind = "set" /\ Hist(t).e > 0 =>
            /\ frame[t].at < Hist(t).e => frame[t].val = Hist(t).value
            /\ frame[t].at > Hist(t).e => frame[t].val = Nil

C7_Init ==
    /\ \A t \in Threads :
          pc[t] = "idle" /\ frame'[t].op = "init" =>
              \A d \in 1 .. MaxTTL, ci \in Intervals :
                  CacheInit(t, d, ci) => defaultExpiration' = d
    /\ defaultExpiration' # defaultExpiration =>
          \E t \in Threads : pc[t] = "idle" /\ frame'[t].op = "init"

C7_Set ==
    \A t \in Threads :
        pc[t] = "idle" /\ pc'[t] = "set_read" /\ defaultExpiration > 0 =>
            \A id \in {frame'[t].id}, value \in Values :
                CacheSet(t, id, value, <<>>) =>
                    /\ items'[id] = Item(value, now + defaultExpiration)
                    /\ hist'[id].e = now + defaultExpiration

C7_DefaultTTL == [](C7_Get) /\ [][C7_Init /\ C7_Set]_vars

\* C7 witness: a Set without an expiration, under a default of d > 0, has
\* written an entry with the deadline t + d.
C7_Witness ==
    \E t \in Threads :
        /\ pc[t] = "set_read" /\ frame[t].omitted /\ defaultExpiration > 0
        /\ items[frame[t].id].Expiration = now + defaultExpiration

\* C8: at most one call is inside its critical section, and it is the one that
\* holds the mutex; a Get that follows a Set of the key, by whatever thread,
\* with no Set, Flush or Init of it in between and not after the deadline,
\* returns the value set.
C8_Linearized ==
    /\ \A t \in Threads : pc[t] # "idle" <=> mutex = t
    /\ \A t, u \in Threads : pc[t] # "idle" /\ pc[u] # "idle" => t = u
    /\ \A t \in Threads :
          /\ Returned(t, "get") /\ Hist(t).kind = "set"
          /\ Hist(t).e = 0 \/ frame[t].at <= Hist(t).e
          => frame[t].val = Hist(t).value

\* C8 witness: a Get returned the value that another thread set.
C8_Witness ==
    \E t \in Threads :
        /\ Returned(t, "get") /\ Hist(t).kind = "set"
        /\ Hist(t).by # t /\ frame[t].val = Hist(t).value

\* C9: with every thread on a key of its own, a Get returns nil or a value the
\* thread stored itself, and, once the thread has set its key and the deadline
\* has not passed, the value of its last Set.
C9_OwnWrites ==
    \A t \in Threads :
        Returned(t, "get") =>
            /\ frame[t].id = Own(t)
            /\ frame[t].val \in OwnValues(t) \cup {Nil}
            /\ Hist(t).kind = "set" => Hist(t).by = t
            /\ Hist(t).kind = "set" /\ (Hist(t).e = 0 \/ frame[t].at <= Hist(t).e)
                  => frame[t].val = Hist(t).value

\* C9 witness: a thread reads its own value back while the other thread's key
\* holds that thread's value.
C9_Witness ==
    \E t \in Threads, u \in Threads :
        /\ t # u /\ Returned(t, "get") /\ frame[t].val \in OwnValues(t)
        /\ items[Own(u)].present /\ items[Own(u)].Object \in OwnValues(u)

C10_Access ==
    /\ \A t \in Threads :
          \/ /\ cache # 0 /\ pc[t] = "idle" /\ pc'[t] # "idle"
             /\ frame'[t].op \in {"set", "get", "flush"}
          \/ pc[t] = "set_read" /\ pc'[t] = "unlock"
          => janitor.state # "sweep" /\ mu = NoThread
    /\ janitor.state # "sweep" /\ janitor'.state = "sweep"
          => mu = NoThread /\ mu' = Janitor /\ mutex' = mutex

Running == (IF janitor.state = "none" THEN 0 ELSE 1) + stale.wait + stale.sweep

\* C11: at most one janitor runs at any time, and once an Init that replaced a
\* store has returned, the janitor of the store replaced starts no sweep.
C11_Replaced ==
    stale'.sweep = stale.sweep + 1 /\ stale'.wait = stale.wait - 1
        => \E t \in Threads : pc[t] = "unlock" /\ frame[t].op = "init"

C11_OneJanitor == [](Running <= 1) /\ [][C11_Replaced]_vars

\* C12: on an initialized cache every Set returns true and no error, and every
\* Get and Flush returns no error; the cache never becomes uninitialized again.
C12_Results ==
    \A t \in Threads :
        cache # 0 /\ pc[t] = "unlock" =>
            /\ frame[t].err = NoError
            /\ frame[t].op = "set" => frame[t].ok

C12_FailsOnlyUninitialized == [](C12_Results) /\ [][cache # 0 => cache' # 0]_vars

\* C13: whenever no call is in progress the mutex is free, and only a call in
\* progress holds it; in every state a call in progress, a new call or the
\* sweep that holds the store's lock can take a step; under fair scheduling
\* every call that has taken the mutex returns and releases it.
C13_LockFree ==
    /\ (\A t \in Threads : pc[t] = "idle") => mutex = NoThread
    /\ \A t \in Threads : mutex = t => pc[t] # "idle"

C13_NoDeadlock ==
    ENABLED (\/ \E t \in Threads : Unlock(t) \/ SetRead(t) \/ CacheFlush(t)
             \/ JanitorSweep)

C13_Releases ==
    /\ [](C13_LockFree /\ C13_NoDeadlock)
    /\ \A t \in Threads : (pc[t] # "idle") ~> (pc[t] = "idle" /\ mutex # t)
    /\ \A t \in Threads : (mutex = t) ~> (mutex = NoThread)

\* C13 witness: a Flush on the uninitialized cache is on its error return,
\* the mutex still held and the deferred Unlock about to run.
C13_Witness ==
    \E t \in Threads :
        /\ cache = 0 /\ pc[t] = "unlock" /\ frame[t].op = "flush"
        /\ frame[t].err = ErrNotInitialized /\ mutex = t /\ ENABLED Unlock(t)

\* C14: however often New and NewModuleInstance are called, one Cache is
\* allocated, globalCacheInstance refers to it from then on, and the exports of
\* every module instance are bound to it; Init leaves that binding alone, and a
\* Get through one module instance returns the value set through another.
C14_OneInstance ==
    /\ globalCacheInstance = (IF roots > 0 THEN 1 ELSE 0)
    /\ once <=> roots > 0
    /\ \A t \in Threads : exports[t] \in {0, 1}
    /\ \A t \in Threads : pc[t] # "idle" => exports[t] = 1
    /\ \A t \in Threads :
          /\ Returned(t, "get") /\ Hist(t).kind = "set" /\ Hist(t).by # t
          /\ Hist(t).e = 0 \/ frame[t].at <= Hist(t).e
          => exports[t] = exports[Hist(t).by] /\ frame[t].val = Hist(t).value

C14_Identity ==
    /\ globalCacheInstance # 0 => globalCacheInstance' = globalCacheInstance
    /\ \A t \in Threads : exports[t] # 0 => exports'[t] = exports[t]
    /\ cache' # cache \/ items' # items => UNCHANGED modvars

C14_SingleInstance == [](C14_OneInstance) /\ [][C14_Identity]_vars

\* C14 witness: after MaxNew calls of New, a Get through one module instance
\* returned the value set through the other.
C14_Witness ==
    \E t \in Threads :
        /\ roots = MaxNew /\ Returned(t, "get") /\ Hist(t).kind = "set"
        /\ Hist(t).by # t /\ frame[t].val = Hist(t).value
        /\ exports[t] = globalCacheInstance

\* The store as it would be had no janitor ever swept it: hist follows every
\* Set, Flush and Init and no sweep.
Unswept ==
    [k \in Keys |-> IF hist[k].kind = "set"
                    THEN Item(hist[k].value, hist[k].e) ELSE NoItem]

\* C15: at any time a lookup of any key gives the same result in the store
\* that the janitor sweeps as in the store never swept, and the results that
\* Get and Set return are those the never-swept store gives.
C15_SameLookups ==
    /\ cache # 0 => \A k \in Keys : Lookup(items, k, now) = Lookup(Unswept, k, now)
    /\ \A t \in Threads :
          Returned(t, "get") =>
              frame[t].val = GetResult(Lookup(Unswept, frame[t].id, frame[t].at))

C15_SetRead ==
    \A t \in Threads :
        pc[t] = "set_read" /\ pc'[t] = "unlock" =>
            /\ frame'[t].ok = Lookup(Unswept, frame[t].id, now).found
            /\ frame'[t].err = NoError

C15_Transparent == [](C15_SameLookups) /\ [][C15_SetRead]_vars

\* C15 witness: a Get returned nil for an entry that a sweep has removed and
\* the never-swept store still holds.
C15_Witness ==
    \E t \in Threads :
        /\ Returned(t, "get") /\ frame[t].val = Nil
        /\ ~items[frame[t].id].present /\ Unswept[frame[t].id].present

\* C16 as claimed: once a Get has found the entry of its key past its deadline,
\* the store holds no entry for the key.
C16_LazyRemoval ==
    \A t \in Threads :
        /\ Returned(t, "get") /\ Hist(t).kind = "set"
        /\ Hist(t).e > 0 /\ frame[t].at > Hist(t).e
        => ~items[frame[t].id].present

\* C16 as amended: a Get leaves the store as it is, also when it finds the
\* entry past its deadline and returns nil; an entry leaves the store only by
\* a sweep, a Flush or an Init (and a Set replaces it).
C16_Get ==
    \A t \in Threads :
        pc[t] = "idle" /\ pc'[t] = "unlock" /\ frame'[t].op = "get" => items' = items

C16_Removal ==
    \A k \in Keys :
        items[k].present /\ ~items'[k].present =>
            \/ janitor.state = "sweep" /\ janitor'.state = "wait"
            \/ hist'[k].kind \in {"flush", "init"} /\ hist[k].kind = "set"

C16_GetKeeps == [][C16_Get /\ C16_Removal]_vars

\* C16 witness: a Get returned nil for an entry past its deadline, which the
\* store still holds because its janitor has not swept it yet.
C16_Witness ==
    \E t \in Threads :
        /\ Returned(t, "get") /\ frame[t].val = Nil /\ janitor.state = "wait"
        /\ items[frame[t].id].present /\ Expired(items[frame[t].id], frame[t].at)

\* C17: an Init with a cleanup interval > 0 starts a janitor; a sweep that read
\* the clock at time t removes every entry whose deadline is before t and
\* leaves every other entry, with or without a deadline, as it was.
C17_Started ==
    \A t \in Threads :
        pc[t] = "idle" /\ frame'[t].op = "init" =>
            \A d \in Durations, ci \in 1 .. MaxInterval :
                CacheInit(t, d, ci) => janitor'.state = "wait"

C17_Swept ==
    janitor.state = "sweep" /\ janitor'.state = "wait" /\ pc' = pc =>
        \A k \in Keys :
            IF items[k].present /\ items[k].Expiration > 0
                                /\ items[k].Expiration < janitor.now
            THEN ~items'[k].present
            ELSE items'[k] = items[k]

C17_SweepExact ==
    /\ [](janitor.state = "sweep" => janitor.now <= now)
    /\ [][C17_Started /\ C17_Swept]_vars

\* C17 witness: a sweep has removed the entry of one key, past its deadline,
\* and left the entry of another.
C17_Witness ==
    \E k \in Keys, j \in Keys :
        /\ janitor.state = "wait"
        /\ ~items[k].present /\ Unswept[k].present /\ Unswept[k].Expiration < now
        /\ items[j].present /\ items[j] = Unswept[j]

\* C18: an Init with a default expiration of 0 makes the store's default 'no
\* expiration'; a Set without an expiration then writes an entry without a
\* deadline, which no sweep removes and which every Get returns, at whatever
\* time, until a Set, a Flush or an Init changes the key.
C18_Init ==
    \A t \in Threads :
        pc[t] = "idle" /\ frame'[t].op = "init" =>
            \A ci \in Intervals :
                CacheInit(t, 0, ci) => defaultExpiration' = NoExpiration

C18_Set ==
    \A t \in Threads :
        pc[t] = "idle" /\ pc'[t] = "set_read" /\ defaultExpiration = NoExpiration =>
            \A id \in {frame'[t].id}, value \in Values :
                CacheSet(t, id, value, <<>>) =>
                    items'[id] = Item(value, 0) /\ hist'[id].e = 0

C18_Kept ==
    /\ \A k \in Keys :
          hist[k].kind = "set" /\ hist[k].e = 0 => items[k] = Item(hist[k].value, 0)
    /\ \A t \in Threads :
          Returned(t, "get") /\ Hist(t).kind = "set" /\ Hist(t).e = 0
              => frame[t].val = Hist(t).value

C18_NeverExpires == [](C18_Kept) /\ [][C18_Init /\ C18_Set]_vars

\* C18 witness: under the default 'no expiration' and a running janitor, a Get
\* at the latest time returned the value of an entry without a deadline.
C18_Witness ==
    \E t \in Threads :
        /\ defaultExpiration = NoExpiration /\ janitor.state # "none"
        /\ Returned(t, "get") /\ frame[t].at = MaxTime
        /\ Hist(t).kind = "set" /\ Hist(t).e = 0 /\ frame[t].val = Hist(t).value

\* C19: a Set with an expiration of 0 writes the entry that the same Set
\* without an expiration writes: its deadline is the time of the Set plus the
\* store's default if that is positive, and none otherwise; the entry is found
\* right after the Set.
C19_Set ==
    \A t \in Threads :
        pc[t] = "idle" /\ pc'[t] = "set_read" =>
            LET e == IF defaultExpiration > 0 THEN now + defaultExpiration ELSE 0
            IN \A id \in {frame'[t].id}, value \in Values, x \in {<<0>>, <<>>} :
                   CacheSet(t, id, value, x) =>
                       /\ items' = [items EXCEPT ![id] = Item(value, e)]
                       /\ hist'[id].e = e
                       /\ Lookup(items', id, now).found

C19_ZeroIsDefault == [][C19_Set]_vars

\* C19 witness: under a positive default, a Set with an expiration of 0 has
\* written an entry with the default's deadline.
C19_Witness ==
    \E t \in Threads :
        /\ pc[t] = "set_read" /\ frame[t].zero /\ defaultExpiration > 0
        /\ items[frame[t].id].Expiration = now + defaultExpiration

\* C20: an Init with a cleanup interval of 0 gives the store no janitor; while
\* the store has none, no sweep of it starts, every entry set stays in the map
\* as it was written, past its deadline too, and only a Set, a Flush or an
\* Init changes the map; a Get of an entry past its deadline returns nil.
C20_Init ==
    \A t \in Threads :
        pc[t] = "idle" /\ frame'[t].op = "init" =>
            \A d \in Durations : CacheInit(t, d, 0) => janitor' = NoJanitor

C20_Step ==
    janitor.state = "none" =>
        /\ janitor'.state # "sweep" /\ mu' # Janitor
        /\ items' # items =>
              \E t \in Threads :
                  pc[t] = "idle" /\ frame'[t].op \in {"set", "flush", "init"}

C20_Remains ==
    janitor.state = "none" =>
        /\ mu # Janitor
        /\ cache # 0 => items = Unswept
        /\ \A t \in Threads :
              /\ Returned(t, "get") /\ items[frame[t].id].present
              /\ Expired(items[frame[t].id], frame[t].at)
              => frame[t].val = Nil

C20_NoJanitor == [](C20_Remains) /\ [][C20_Init /\ C20_Step]_vars

\* C20 witness: in a store without a janitor, with no janitor of an earlier
\* store left either, an entry past its deadline is still in the map and a Get
\* of it has returned nil.
C20_Witness ==
    \E t \in Threads :
        /\ cache # 0 /\ Running = 0
        /\ Returned(t, "get") /\ frame[t].val = Nil
        /\ items[frame[t].id].present /\ Expired(items[frame[t].id], frame[t].at)

====
